---- MODULE Spec2Model ----
(***************************************************************************)
(* Model of controller/vault/azure_keyvault_service.go: the object-type    *)
(* dispatch of AzureKeyVaultService.GetSecret, the plain-secret path       *)
(* (getSecret), the certificate path (getCertificate) and the two          *)
(* certificate decoders (extractPemCertificate, extractPfxCertificate).    *)
(*                                                                         *)
(* A Go string / []byte is a sequence of tokens.  A token is either one    *)
(* character (k = "ch") or one whole PEM boundary line (k = "begin" or     *)
(* k = "end", t = the block type).  Go run-time panics (nil dereference,   *)
(* index out of range) are the outcome pc = "panic".                       *)
(***************************************************************************)
EXTENDS Integers, Sequences, FiniteSets, TLC

VARIABLES pc, secret, calls, certBundle, secretBundle, ret, str, dec

vars == <<pc, secret, calls, certBundle, secretBundle, ret, str, dec>>

\* ------------------------------------------------------------------ bounds
MaxKeys == 2
MaxChunks == 3
MaxPfxLen == 4

\* --------------------------------------------------------------- constants
AzureKeyVaultObjectTypeSecret == "secret"
AzureKeyVaultObjectTypeCertificate == "certificate"
AzureKeyVaultObjectTypeKey == "key"
AzureKeyVaultObjectTypeStorage == "storage"

AzureKeyVaultCertificateTypePem == "application/x-pem-file"
AzureKeyVaultCertificateTypePfx == "application/x-pkcs12"

TLSCertKey == "tls.crt"
TLSPrivateKeyKey == "tls.key"

\* ------------------------------------------------------ strings and tokens
Ch(c) == [k |-> "ch", t |-> c]
BeginLine(t) == [k |-> "begin", t |-> t]
EndLine(t) == [k |-> "end", t |-> t]

RECURSIVE Concat(_)
Concat(ss) == IF ss = <<>> THEN <<>> ELSE Head(ss) \o Concat(Tail(ss))

Text(cs) == [i \in 1..Len(cs) |-> Ch(cs[i])]

SetMin(S) == CHOOSE x \in S : \A y \in S : x <= y

\* ------------------------------------------------------------------ base64
StdAlphabet ==
    << "A","B","C","D","E","F","G","H","I","J","K","L","M",
       "N","O","P","Q","R","S","T","U","V","W","X","Y","Z",
       "a","b","c","d","e","f","g","h","i","j","k","l","m",
       "n","o","p","q","r","s","t","u","v","w","x","y","z",
       "0","1","2","3","4","5","6","7","8","9","+","/" >>

URLAlphabet == [i \in 1..64 |-> IF i = 63 THEN "-" ELSE IF i = 64 THEN "_" ELSE StdAlphabet[i]]

\* Encoding.decodeMap: the sextet of a character, 255 for a character outside
\* the alphabet.
decodeMap(alphabet, c) ==
    IF \E i \in 1..64 : alphabet[i] = c
    THEN (CHOOSE i \in 1..64 : alphabet[i] = c) - 1
    ELSE 255

\* The three bytes of four sextets (missing sextets are 0).
Quantum(dbuf) ==
    LET d(i) == IF i <= Len(dbuf) THEN dbuf[i] ELSE 0
        val == d(1) * 262144 + d(2) * 4096 + d(3) * 64 + d(4)
    IN  << val \div 65536, (val \div 256) % 256, val % 256 >>

\* Encoding.decodeQuantum of encoding/base64 for an unpadded, non-strict
\* encoding: reads up to four sextets of src (a sequence of characters) from
\* offset si, skipping \n and \r.
RECURSIVE decodeQuantum(_, _, _, _, _)
decodeQuantum(alphabet, src, si, j, dbuf) ==
    IF j = 4
    THEN [si |-> si, dlen |-> 4, dbuf |-> dbuf, err |-> FALSE]
    ELSE IF si = Len(src)
    THEN IF j = 1
         THEN [si |-> si, dlen |-> 0, dbuf |-> dbuf, err |-> TRUE]
         ELSE [si |-> si, dlen |-> j, dbuf |-> dbuf, err |-> FALSE]
    ELSE LET in == src[si + 1]
             out == decodeMap(alphabet, in)
         IN  IF out # 255
             THEN decodeQuantum(alphabet, src, si + 1, j + 1, Append(dbuf, out))
             ELSE IF in \in {"\n", "\r"}
             THEN decodeQuantum(alphabet, src, si + 1, j, dbuf)
             ELSE [si |-> si + 1, dlen |-> 0, dbuf |-> dbuf, err |-> TRUE]

\* Encoding.Decode(dst, src): writes into the existing length of dst and
\* never grows it; a write past len(dst) is an index-out-of-range panic.
RECURSIVE base64Decode(_, _, _, _, _)
base64Decode(alphabet, dst, src, si, n) ==
    IF si >= Len(src)
    THEN [dst |-> dst, n |-> n, err |-> FALSE, panic |-> FALSE]
    ELSE LET q == decodeQuantum(alphabet, src, si, 0, <<>>)
             nb == q.dlen - 1
             bytes == Quantum(q.dbuf)
         IN  IF q.err
             THEN [dst |-> dst, n |-> n, err |-> TRUE, panic |-> FALSE]
             ELSE IF q.dlen = 0
             THEN base64Decode(alphabet, dst, src, q.si, n)
             ELSE IF Len(dst) - n < nb
             THEN [dst |-> dst, n |-> n, err |-> FALSE, panic |-> TRUE]
             ELSE base64Decode(alphabet,
                      [i \in 1..Len(dst) |->
                          IF i > n /\ i <= n + nb THEN bytes[i - n] ELSE dst[i]],
                      src, q.si, n + nb)

\* Encoding.EncodeToString of the padded standard encoding.
RECURSIVE base64Encode(_)
base64Encode(bytes) ==
    IF bytes = <<>> THEN <<>>
    ELSE LET b(i) == IF i <= Len(bytes) THEN bytes[i] ELSE 0
             val == b(1) * 65536 + b(2) * 256 + b(3)
             c(i) == StdAlphabet[((val \div (64 ^ (4 - i))) % 64) + 1]
             m == IF Len(bytes) < 3 THEN Len(bytes) ELSE 3
             q == [i \in 1..4 |-> IF i <= m + 1 THEN c(i) ELSE "="]
         IN  q \o base64Encode(SubSeq(bytes, m + 1, Len(bytes)))

\* The characters a string is made of: a boundary line is its text.
TypeChars(t) ==
    IF t = "CERTIFICATE"
    THEN <<"C","E","R","T","I","F","I","C","A","T","E">>
    ELSE <<"P","R","I","V","A","T","E"," ","K","E","Y">>

LineChars(tok) ==
    <<"-","-","-","-","-">>
    \o (IF tok.k = "begin" THEN <<"B","E","G","I","N">> ELSE <<"E","N","D">>)
    \o <<" ">> \o TypeChars(tok.t) \o <<"-","-","-","-","-","\n">>

RECURSIVE Chars(_)
Chars(s) ==
    IF s = <<>> THEN <<>>
    ELSE (IF Head(s).k = "ch" THEN <<Head(s).t>> ELSE LineChars(Head(s)))
         \o Chars(Tail(s))

\* --------------------------------------------------------------------- PEM
NilBlock == [nil |-> TRUE, Type |-> "", Bytes |-> <<>>]
Block(t, bytes) == [nil |-> FALSE, Type |-> t, Bytes |-> bytes]

\* The body of a PEM block: spaces, tabs and line ends are dropped, the rest
\* is decoded with the padded standard encoding.
pemBody(body) ==
    LET cs == SelectSeq(Chars(body), LAMBDA c : c \notin {" ", "\t", "\n", "\r"})
        ok == /\ \A i \in 1..Len(body) : body[i].k = "ch"
              /\ \A i \in 1..Len(cs) : decodeMap(StdAlphabet, cs[i]) # 255
              /\ Len(cs) % 4 = 0
        d == base64Decode(StdAlphabet, [i \in 1..((Len(cs) \div 4) * 3) |-> 0], cs, 0, 0)
    IN  [ok |-> ok, Bytes |-> IF ok THEN d.dst ELSE <<>>]

\* pem.Decode(data): the first well-formed block at or after position from
\* and the rest of the input, or no block and the whole input.
RECURSIVE pemDecodeFrom(_, _)
pemDecodeFrom(data, from) ==
    LET bs == {p \in from..Len(data) : data[p].k = "begin"}
    IN  IF bs = {}
        THEN [block |-> NilBlock, rest |-> data]
        ELSE LET b == SetMin(bs)
                 es == {p \in (b + 1)..Len(data) : data[p].k = "end"}
             IN  IF es = {}
                 THEN pemDecodeFrom(data, b + 1)
                 ELSE LET e == SetMin(es)
                          body == pemBody(SubSeq(data, b + 1, e - 1))
                      IN  IF data[e].t = data[b].t /\ body.ok
                          THEN [block |-> Block(data[b].t, body.Bytes),
                                rest |-> SubSeq(data, e + 1, Len(data))]
                          ELSE pemDecodeFrom(data, b + 1)

pemDecode(data) == pemDecodeFrom(data, 1)

\* pem.EncodeToMemory(b): dereferences b, so a nil block panics.
pemEncodeToMemory(b) ==
    IF b.nil
    THEN [panic |-> TRUE, out |-> <<>>]
    ELSE [panic |-> FALSE,
          out |-> <<BeginLine(b.Type)>>
                  \o (IF b.Bytes = <<>> THEN <<>>
                      ELSE Text(base64Encode(b.Bytes)) \o <<Ch("\n")>>)
                  \o <<EndLine(b.Type)>>]

\* ------------------------------------------------------------ Go values
\* map[string][]byte: isNil distinguishes the nil map from an empty map.
EmptyMap == [k \in {} |-> <<>>]
NilMapValue == [isNil |-> TRUE, m |-> EmptyMap]
MapValue(m) == [isNil |-> FALSE, m |-> m]

\* error: msg is the format string, arg what it is formatted with.
NoErr == [msg |-> "", arg |-> ""]
Errorf(msg, arg) == [msg |-> msg, arg |-> arg]

AuthErr == Errorf("auth: failed to create authorizer from environment", "")
VaultErr == Errorf("keyvault: request failed", "")

\* *string: a nil pointer is present = FALSE.
NilPtr == [present |-> FALSE, s |-> <<>>]
Ptr(s) == [present |-> TRUE, s |-> s]

\* What a decoder hands back, or that it panicked.
Returns(value, err) == [panic |-> FALSE, value |-> value, err |-> err]
Panics == [panic |-> TRUE, value |-> NilMapValue, err |-> NoErr]
NotDecoded == Returns(NilMapValue, NoErr)

\* ---------------------------------------------------------------- decoders
\* extractPemCertificate with the two destination keys exchanged.
extractPemCertificate_Swapped(pemCert) ==
    LET first == pemDecode(pemCert)
        privateDer == first.block
        publicDer == pemDecode(first.rest).block
        crt == pemEncodeToMemory(privateDer)
        key == pemEncodeToMemory(publicDer)
    IN  IF crt.panic \/ key.panic
        THEN Panics
        ELSE Returns(MapValue([k \in {TLSCertKey, TLSPrivateKeyKey} |->
                                  IF k = TLSCertKey THEN crt.out ELSE key.out]),
                     NoErr)

\* extractPemCertificate: the first block is the private key, the block
\* decoded from the rest is the public certificate.  The public block is
\* encoded first.
extractPemCertificate(pemCert) ==
    LET first == pemDecode(pemCert)
        privateDer == first.block
        publicDer == pemDecode(first.rest).block
        crt == pemEncodeToMemory(publicDer)
        key == pemEncodeToMemory(privateDer)
    IN  IF crt.panic \/ key.panic
        THEN Panics
        ELSE Returns(MapValue([k \in {TLSCertKey, TLSPrivateKeyKey} |->
                                  IF k = TLSCertKey THEN crt.out ELSE key.out]),
                     NoErr)

\* The archives pkcs12.ToPEM accepts with the empty password, as the entries
\* they hold in archive order; every other byte sequence is a parse error.
CertEntry == Block("CERTIFICATE", <<0, 0, 1>>)
KeyEntry == Block("PRIVATE KEY", <<4, 0, 0>>)

pkcs12ToPEM(pfxData) ==
    IF pfxData = <<4, 0, 0>>
    THEN [err |-> FALSE, pemList |-> <<CertEntry, KeyEntry>>]
    ELSE IF pfxData = <<0, 16, 0>>
    THEN [err |-> FALSE, pemList |-> <<KeyEntry, CertEntry>>]
    ELSE [err |-> TRUE, pemList |-> <<>>]

\* mergedPems: the PEM encodings of the entries, in order.
mergedPems(pemList) ==
    Concat([i \in 1..Len(pemList) |-> pemEncodeToMemory(pemList[i]).out])

\* extractPfxCertificate that, when base64 decoding fails, hands the input
\* back under the certificate key together with the error.
extractPfxCertificate_RawOnError(pfx) ==
    LET pfxRaw == <<>>
        d == base64Decode(URLAlphabet, pfxRaw, Chars(pfx), 0, 0)
        p == pkcs12ToPEM(d.dst)
    IN  IF d.panic
        THEN Panics
        ELSE IF d.err
        THEN Returns(MapValue([k \in {TLSCertKey} |-> pfx]),
                     Errorf("failed to decode base64 encoded pfx certificate, error: %+v",
                            "illegal base64 data"))
        ELSE IF p.err
        THEN Returns(MapValue(EmptyMap),
                     Errorf("failed to convert pfx certificate to pem, error: %+v",
                            "pkcs12: error reading P12 data"))
        ELSE extractPemCertificate(mergedPems(p.pemList))

\* extractPfxCertificate: pfxRaw is made with length 0 and handed to Decode
\* as the destination.
extractPfxCertificate(pfx) ==
    LET pfxRaw == <<>>
        d == base64Decode(URLAlphabet, pfxRaw, Chars(pfx), 0, 0)
        p == pkcs12ToPEM(d.dst)
    IN  IF d.panic
        THEN Panics
        ELSE IF d.err
        THEN Returns(MapValue(EmptyMap),
                     Errorf("failed to decode base64 encoded pfx certificate, error: %+v",
                            "illegal base64 data"))
        ELSE IF p.err
        THEN Returns(MapValue(EmptyMap),
                     Errorf("failed to convert pfx certificate to pem, error: %+v",
                            "pkcs12: error reading P12 data"))
        ELSE extractPemCertificate(mergedPems(p.pemList))

\* ------------------------------------------------------------------ inputs
ObjectTypes ==
    {AzureKeyVaultObjectTypeSecret, AzureKeyVaultObjectTypeCertificate,
     AzureKeyVaultObjectTypeKey, AzureKeyVaultObjectTypeStorage}

Versions == {"", "v1"}

DstNames == {"k1", "k2"}

\* Spec.OutputSecret.Keys: up to MaxKeys entries, repeats allowed.
KeyLists ==
    UNION {[1..n -> [DstName : DstNames]] : n \in 0..MaxKeys}

\* The AzureKeyVaultSecret resource a call is made for.
Secrets ==
    [Type : ObjectTypes, Name : {"obj"}, Version : Versions, Keys : KeyLists]

KeyPem ==
    <<BeginLine("PRIVATE KEY")>> \o Text(<<"B", "A", "A", "A">>)
    \o <<Ch("\n"), EndLine("PRIVATE KEY")>>

CertPem ==
    <<BeginLine("CERTIFICATE")>> \o Text(<<"A", "A", "A", "B">>)
    \o <<EndLine("CERTIFICATE")>>

WrappedCertPem ==
    <<BeginLine("CERTIFICATE")>> \o Text(<<"A", "A", "\n", "B", "A">>)
    \o <<EndLine("CERTIFICATE")>>

\* What the vault may answer to GetCertificate: an error, or a bundle whose
\* policy's Exportable is true, false or a nil pointer.
CertBundles ==
    [fetched : {TRUE}, err : BOOLEAN, Exportable : {"true", "false", "nil"}]

NoCertBundle == [fetched |-> FALSE, err |-> FALSE, Exportable |-> "nil"]

NilContentType == [present |-> FALSE, s |-> ""]

ContentTypes ==
    {NilContentType}
    \cup {[present |-> TRUE, s |-> c] :
             c \in {AzureKeyVaultCertificateTypePem, AzureKeyVaultCertificateTypePfx,
                    "text/plain", ""}}

SecretValues ==
    {NilPtr}
    \cup {Ptr(v) : v \in {<<>>, Text(<<"s">>), Text(<<"B", "A", "A", "A">>),
                          Text(<<"A", "A", "A", "A">>), Text(<<"!">>),
                          CertPem, KeyPem \o CertPem, CertPem \o KeyPem \o WrappedCertPem}}

\* What the vault may answer to GetSecret.
SecretBundles ==
    [fetched : {TRUE}, err : {FALSE}, Value : SecretValues, ContentType : ContentTypes]
    \cup {[fetched |-> TRUE, err |-> TRUE, Value |-> NilPtr, ContentType |-> NilContentType]}

NoSecretBundle ==
    [fetched |-> FALSE, err |-> FALSE, Value |-> NilPtr, ContentType |-> NilContentType]

NoRet == [value |-> NilMapValue, err |-> NoErr]

NoSecret ==
    [Type |-> AzureKeyVaultObjectTypeCertificate, Name |-> "obj", Version |-> "",
     Keys |-> <<>>]

\* Decoder inputs: up to MaxChunks pieces, each one token or one whole block.
Chunks ==
    {<<tok>> : tok \in {BeginLine("PRIVATE KEY"), BeginLine("CERTIFICATE"),
                        EndLine("PRIVATE KEY"), EndLine("CERTIFICATE"),
                        Ch("A"), Ch("\n"), Ch("!")}}
    \cup {KeyPem, CertPem, WrappedCertPem}

PemInputs ==
    {Concat(cs) : cs \in UNION {[1..n -> Chunks] : n \in 0..MaxChunks}}

PfxTokens == {Ch("A"), Ch("B"), Ch("\n"), Ch("!"), BeginLine("CERTIFICATE")}

PfxInputs == UNION {[1..n -> PfxTokens] : n \in 0..MaxPfxLen}

\* ------------------------------------------------------- the call, by step
Return(value, err) ==
    /\ pc' = "done"
    /\ ret' = [value |-> value, err |-> err]

Panic ==
    /\ pc' = "panic"
    /\ UNCHANGED ret

\* One call on the vault client, as the client sees it.
ClientCall(op, name, version) == [op |-> op, name |-> name, version |-> version]

\* AzureKeyVaultService.GetSecret: the switch on the object type.
GetSecret ==
    /\ pc = "GetSecret"
    /\ pc' = IF secret.Type = AzureKeyVaultObjectTypeCertificate
             THEN "getCertificate"
             ELSE "getSecret"
    /\ UNCHANGED <<secret, calls, certBundle, secretBundle, ret, str, dec>>

\* getSecret up to the client: getClient fails or hands out a client.
getSecret ==
    /\ pc = "getSecret"
    /\ \E clientErr \in BOOLEAN :
          IF clientErr
          THEN Return(MapValue(EmptyMap), AuthErr)
          ELSE pc' = "getSecret_GetSecret" /\ UNCHANGED ret
    /\ UNCHANGED <<secret, calls, certBundle, secretBundle, str, dec>>

\* The loop over the keys leaving after its first iteration.
secretValue_FirstKeyOnly(keys, value) ==
    [k \in {keys[i].DstName : i \in 1..(IF Len(keys) > 1 THEN 1 ELSE Len(keys))} |-> value]

\* The loop over Spec.OutputSecret.Keys: every DstName gets the value.
secretValue(keys, value) ==
    [k \in {keys[i].DstName : i \in 1..Len(keys)} |-> value]

\* getSecret from the fetch to the return.
getSecret_GetSecret ==
    /\ pc = "getSecret_GetSecret"
    /\ calls' = Append(calls, ClientCall("GetSecret", secret.Name, ""))
    /\ \E bundle \in SecretBundles :
          /\ secretBundle' = bundle
          /\ IF bundle.err
             THEN Return(MapValue(EmptyMap), VaultErr)
             ELSE IF secret.Keys # <<>> /\ ~bundle.Value.present
             THEN Panic
             ELSE Return(MapValue(secretValue(secret.Keys, bundle.Value.s)), NoErr)
    /\ UNCHANGED <<secret, certBundle, str, dec>>

\* getCertificate up to the client.
getCertificate ==
    /\ pc = "getCertificate"
    /\ \E clientErr \in BOOLEAN :
          IF clientErr
          THEN Return(MapValue(EmptyMap), AuthErr)
          ELSE pc' = "getCertificate_GetCertificate" /\ UNCHANGED ret
    /\ UNCHANGED <<secret, calls, certBundle, secretBundle, str, dec>>

\* The certificate fetch without the exportable check.
getCertificate_GetCertificate_NoExportableCheck ==
    /\ pc = "getCertificate_GetCertificate"
    /\ calls' = Append(calls, ClientCall("GetCertificate", secret.Name, secret.Version))
    /\ \E bundle \in CertBundles :
          /\ certBundle' = bundle
          /\ IF bundle.err
             THEN Return(MapValue(EmptyMap),
                         Errorf("failed to get certificate from azure key vault, error: %+v",
                                VaultErr.msg))
             ELSE IF bundle.Exportable = "nil"
             THEN Panic
             ELSE pc' = "getCertificate_GetSecret" /\ UNCHANGED ret
    /\ UNCHANGED <<secret, secretBundle, str, dec>>

\* The certificate fetch whose error does not end the call.
getCertificate_GetCertificate_NoReturnOnError ==
    /\ pc = "getCertificate_GetCertificate"
    /\ calls' = Append(calls, ClientCall("GetCertificate", secret.Name, secret.Version))
    /\ \E bundle \in CertBundles :
          /\ certBundle' = bundle
          /\ IF ~bundle.err /\ bundle.Exportable = "nil"
             THEN Panic
             ELSE IF ~bundle.err /\ bundle.Exportable = "false"
             THEN Return(NilMapValue,
                         Errorf("unable to get certificate since it's not exportable", ""))
             ELSE pc' = "getCertificate_GetSecret" /\ UNCHANGED ret
    /\ UNCHANGED <<secret, secretBundle, str, dec>>

\* getCertificate: the certificate fetch and the exportable check.
getCertificate_GetCertificate ==
    /\ pc = "getCertificate_GetCertificate"
    /\ calls' = Append(calls, ClientCall("GetCertificate", secret.Name, secret.Version))
    /\ \E bundle \in CertBundles :
          /\ certBundle' = bundle
          /\ IF bundle.err
             THEN Return(MapValue(EmptyMap),
                         Errorf("failed to get certificate from azure key vault, error: %+v",
                                VaultErr.msg))
             ELSE IF bundle.Exportable = "nil"
             THEN Panic
             ELSE IF bundle.Exportable = "false"
             THEN Return(NilMapValue,
                         Errorf("unable to get certificate since it's not exportable", ""))
             ELSE pc' = "getCertificate_GetSecret" /\ UNCHANGED ret
    /\ UNCHANGED <<secret, secretBundle, str, dec>>

\* getCertificate: the fetch of the companion secret and the switch on its
\* content type.  The content type is dereferenced before the value.
getCertificate_GetSecret ==
    /\ pc = "getCertificate_GetSecret"
    /\ calls' = Append(calls, ClientCall("GetSecret", secret.Name, secret.Version))
    /\ \E bundle \in SecretBundles :
          /\ secretBundle' = bundle
          /\ IF bundle.err
             THEN Return(MapValue(EmptyMap),
                         Errorf("failed to get secret from azure key vault, error: %+v",
                                VaultErr.msg))
             ELSE IF ~bundle.ContentType.present
             THEN Panic
             ELSE IF bundle.ContentType.s \in {AzureKeyVaultCertificateTypePem,
                                               AzureKeyVaultCertificateTypePfx}
             THEN IF ~bundle.Value.present
                  THEN Panic
                  ELSE LET r == IF bundle.ContentType.s = AzureKeyVaultCertificateTypePem
                                THEN extractPemCertificate(bundle.Value.s)
                                ELSE extractPfxCertificate(bundle.Value.s)
                       IN  IF r.panic THEN Panic ELSE Return(r.value, r.err)
             ELSE Return(MapValue(EmptyMap),
                         Errorf("azure key vault secret with content-type '%s' not supported",
                                bundle.ContentType.s))
    /\ UNCHANGED <<secret, certBundle, str, dec>>

Init ==
    /\ pc = "GetSecret"
    /\ secret \in Secrets
    /\ calls = <<>>
    /\ certBundle = NoCertBundle
    /\ secretBundle = NoSecretBundle
    /\ ret = NoRet
    /\ str = <<>>
    /\ dec = NotDecoded

Next ==
    \/ GetSecret
    \/ getSecret
    \/ getSecret_GetSecret
    \/ getCertificate
    \/ getCertificate_GetCertificate
    \/ getCertificate_GetSecret

Spec == Init /\ [][Next]_vars

\* ------------------------------------------------- the decoders on their own
DecoderInit(entry, inputs) ==
    /\ pc = entry
    /\ str \in inputs
    /\ secret = NoSecret
    /\ calls = <<>>
    /\ certBundle = NoCertBundle
    /\ secretBundle = NoSecretBundle
    /\ ret = NoRet
    /\ dec = NotDecoded

Decoded(r) ==
    /\ dec' = r
    /\ pc' = IF r.panic THEN "panic" ELSE "done"
    /\ UNCHANGED <<secret, calls, certBundle, secretBundle, ret, str>>

InitPem == DecoderInit("extractPemCertificate", PemInputs)

DecodePem ==
    /\ pc = "extractPemCertificate"
    /\ Decoded(extractPemCertificate(str))

SpecPem == InitPem /\ [][DecodePem]_vars

InitPfx == DecoderInit("extractPfxCertificate", PfxInputs)

DecodePkcs12 ==
    /\ pc = "extractPfxCertificate"
    /\ Decoded(extractPfxCertificate(str))

SpecPfx == InitPfx /\ [][DecodePkcs12]_vars

\* ------------------------------------------------------------- properties
IsCertificate == secret.Type = AzureKeyVaultObjectTypeCertificate

Finished == pc \in {"done", "panic"}

CountOp(op) == Cardinality({i \in 1..Len(calls) : calls[i].op = op})

Ops == [i \in 1..Len(calls) |-> calls[i].op]

NotExportableMsg == "unable to get certificate since it's not exportable"
UnsupportedMsg == "azure key vault secret with content-type '%s' not supported"
CertRetrievalMsg == "failed to get certificate from azure key vault, error: %+v"
SecretRetrievalMsg == "failed to get secret from azure key vault, error: %+v"
DecodeMsg == "failed to decode base64 encoded pfx certificate, error: %+v"
ParseMsg == "failed to convert pfx certificate to pem, error: %+v"

NotExportableCase ==
    /\ IsCertificate
    /\ certBundle.fetched
    /\ ~certBundle.err
    /\ certBundle.Exportable = "false"

\* C1: a certificate call whose metadata fetch succeeds with exportable = false
\* returns the not-exportable error and never issues the secret fetch.
C1_NotExportableShortCircuits ==
    NotExportableCase =>
        /\ pc = "done"
        /\ ret.err = Errorf(NotExportableMsg, "")
        /\ CountOp("GetSecret") = 0
        /\ ~secretBundle.fetched

C1_Witness == NotExportableCase /\ pc = "done" /\ Len(calls) = 1

PlainFetched ==
    /\ ~IsCertificate
    /\ secretBundle.fetched
    /\ ~secretBundle.err
    /\ secretBundle.Value.present

\* C2: a plain-secret call whose fetch succeeds with value v returns no error
\* and a mapping whose keys are exactly the destination names of the output
\* keys, each holding v unchanged (the empty mapping when there are no output
\* keys); the result is a function of the inputs and the vault's answer alone.
C2_PlainSecretMapping ==
    PlainFetched =>
        /\ pc = "done"
        /\ ret.err = NoErr
        /\ ~ret.value.isNil
        /\ DOMAIN ret.value.m = {secret.Keys[i].DstName : i \in 1..Len(secret.Keys)}
        /\ \A i \in 1..Len(secret.Keys) :
              ret.value.m[secret.Keys[i].DstName] = secretBundle.Value.s

C2_Witness ==
    /\ PlainFetched
    /\ pc = "done"
    /\ Len(secret.Keys) = 2
    /\ secret.Keys[1] # secret.Keys[2]
    /\ secretBundle.Value.s # <<>>

\* C3: on the plain-secret path the secret fetch is made with the name and the
\* version of the requested object.
C3_PlainFetchUsesVersion ==
    \A i \in 1..Len(calls) :
        (~IsCertificate /\ calls[i].op = "GetSecret") =>
            /\ calls[i].name = secret.Name
            /\ calls[i].version = secret.Version

UnsupportedCase ==
    /\ IsCertificate
    /\ certBundle.fetched /\ ~certBundle.err /\ certBundle.Exportable = "true"
    /\ secretBundle.fetched /\ ~secretBundle.err
    /\ \/ ~secretBundle.ContentType.present
       \/ secretBundle.ContentType.s \notin {AzureKeyVaultCertificateTypePem,
                                             AzureKeyVaultCertificateTypePfx}

\* C4: an exportable certificate whose companion secret has a content type
\* that is neither PEM nor PKCS#12, or has none, returns the unsupported
\* content type error carrying that content type, and decodes nothing.
C4_UnsupportedContentType ==
    UnsupportedCase =>
        /\ pc = "done"
        /\ ret.err = Errorf(UnsupportedMsg, secretBundle.ContentType.s)
        /\ ret.value = MapValue(EmptyMap)

\* The blocks repeated pem.Decode finds in a string, in order.
RECURSIVE DecodableBlocks(_)
DecodableBlocks(data) ==
    LET d == pemDecode(data)
    IN  IF d.block.nil THEN <<>> ELSE <<d.block>> \o DecodableBlocks(d.rest)

PemApplied == pc # "extractPemCertificate"

\* C5: DecodePem never fails: for every input it returns a mapping with both
\* fixed keys, the key of a block that could not be decoded holding a
\* zero-length value; it does not panic.
C5_DecodePemTotal ==
    PemApplied =>
        /\ ~dec.panic
        /\ dec.err = NoErr
        /\ DOMAIN dec.value.m = {TLSCertKey, TLSPrivateKeyKey}
        /\ Len(DecodableBlocks(str)) < 1 => dec.value.m[TLSPrivateKeyKey] = <<>>
        /\ Len(DecodableBlocks(str)) < 2 => dec.value.m[TLSCertKey] = <<>>

\* The input decoded into a buffer of the full decoded length.
FullDecode(pfx) ==
    LET src == Chars(pfx)
        d == base64Decode(URLAlphabet, [i \in 1..((Len(src) * 6) \div 8) |-> 0], src, 0, 0)
    IN  [err |-> d.err, bytes |-> SubSeq(d.dst, 1, d.n)]

PfxApplied == pc # "extractPfxCertificate"

\* C6: DecodePkcs12 returns a decode error for input that is not valid base64
\* or decodes to zero bytes, and a parse error for valid base64 whose decoded
\* bytes are not a password-less PKCS#12 archive; it does not panic.
C6_FailureByStage ==
    PfxApplied =>
        LET full == FullDecode(str)
        IN  /\ (full.err \/ full.bytes = <<>>) =>
                   ~dec.panic /\ dec.err.msg = DecodeMsg
            /\ (~full.err /\ full.bytes # <<>> /\ pkcs12ToPEM(full.bytes).err) =>
                   ~dec.panic /\ dec.err.msg = ParseMsg

\* C7: with at least two decodable blocks, tls.key holds the re-encoding of
\* the first and tls.crt the re-encoding of the second, whatever their types;
\* the mapping has exactly these two keys, each decodes back to its block, and
\* what follows the second block does not change the result.
C7_FirstTwoBlocks ==
    (PemApplied /\ Len(DecodableBlocks(str)) >= 2) =>
        LET blocks == DecodableBlocks(str)
            rest == pemDecode(pemDecode(str).rest).rest
            upToSecond == SubSeq(str, 1, Len(str) - Len(rest))
        IN  /\ ~dec.panic
            /\ dec.err = NoErr
            /\ DOMAIN dec.value.m = {TLSCertKey, TLSPrivateKeyKey}
            /\ dec.value.m[TLSPrivateKeyKey] = pemEncodeToMemory(blocks[1]).out
            /\ dec.value.m[TLSCertKey] = pemEncodeToMemory(blocks[2]).out
            /\ pemDecode(dec.value.m[TLSPrivateKeyKey]).block = blocks[1]
            /\ pemDecode(dec.value.m[TLSCertKey]).block = blocks[2]
            /\ dec = extractPemCertificate(upToSecond)

C7_Witness ==
    /\ pc = "done"
    /\ Len(DecodableBlocks(str)) = 3
    /\ DecodableBlocks(str)[1].Type = "CERTIFICATE"
    /\ DecodableBlocks(str)[2].Type = "PRIVATE KEY"
    /\ DecodableBlocks(str)[3].Bytes # DecodableBlocks(str)[1].Bytes

\* C8: for base64 input that encodes a valid password-less archive,
\* DecodePkcs12 returns without error what DecodePem returns for the
\* concatenation, in archive order, of the entries' PEM encodings.
C8_Pkcs12EqualsPem ==
    (PfxApplied /\ ~FullDecode(str).err /\ ~pkcs12ToPEM(FullDecode(str).bytes).err) =>
        /\ ~dec.panic
        /\ dec.err = NoErr
        /\ dec.value =
              extractPemCertificate(
                  mergedPems(pkcs12ToPEM(FullDecode(str).bytes).pemList)).value

\* What C9 says of every path but the plain path's number of calls.
CallTraceShape ==
    /\ IsCertificate =>
          /\ Len(calls) <= 2
          /\ Len(calls) >= 1 => calls[1].op = "GetCertificate"
          /\ Len(calls) = 2 =>
                /\ calls[2].op = "GetSecret"
                /\ certBundle.fetched /\ ~certBundle.err
          /\ (certBundle.fetched /\ certBundle.err) =>
                /\ pc = "done"
                /\ ret.err = Errorf(CertRetrievalMsg, VaultErr.msg)
                /\ Len(calls) = 1
          /\ (secretBundle.fetched /\ secretBundle.err) =>
                /\ pc = "done"
                /\ ret.err = Errorf(SecretRetrievalMsg, VaultErr.msg)
                /\ Len(calls) = 2
    /\ ~IsCertificate =>
          /\ Len(calls) <= 1
          /\ CountOp("GetCertificate") = 0
          /\ (secretBundle.fetched /\ secretBundle.err) =>
                /\ pc = "done"
                /\ ret.err = VaultErr
                /\ Len(calls) = 1

\* C9 as stated: the calls of a certificate call are a prefix of
\* <<GetCertificate, GetSecret>>, the second only after the first succeeded;
\* a plain call makes exactly one GetSecret; a failed call is not retried and
\* its error is returned.
C9_Original ==
    /\ CallTraceShape
    /\ (~IsCertificate /\ Finished) => Ops = <<"GetSecret">>

\* C9 amended: as C9, but a plain call whose client could not be created
\* makes no call at all.
C9_CallTrace ==
    /\ CallTraceShape
    /\ (~IsCertificate /\ Finished) =>
          IF pc = "done" /\ ret.err = AuthErr
          THEN calls = <<>>
          ELSE Ops = <<"GetSecret">>

C9_Witness ==
    /\ pc = "done"
    /\ IsCertificate
    /\ Ops = <<"GetCertificate", "GetSecret">>
    /\ secretBundle.err

\* C10: a call that returns an error returns no entries with it: the mapping
\* is empty or nil.
C10_NoMaterialWithError ==
    (pc = "done" /\ ret.err # NoErr) =>
        \/ ret.value.isNil
        \/ DOMAIN ret.value.m = {}

C10_Witness ==
    /\ pc = "done"
    /\ IsCertificate
    /\ ret.err.msg = DecodeMsg
    /\ ret.value = MapValue(EmptyMap)

====
